---------------------------- MODULE Spec2Model ----------------------------
(* EchoAI backend: the upstream SSE reader (stream_completion), the        *)
(* aggregator (get_completion) and the two request handlers (chat,         *)
(* chat_stream).  Text is modelled as sequences of one-character strings,  *)
(* so that prefix tests, stripping, framing and joining are computed as    *)
(* the code computes them.                                                 *)
EXTENDS Integers, Sequences, FiniteSets, TLC

(***************************************************************************)
(* Bounds of the model                                                     *)
(***************************************************************************)
\* longest upstream body, in lines
MaxLines == 2

(***************************************************************************)
(* Text helpers (Python str operations used by the code)                   *)
(***************************************************************************)
\* characters removed by str.strip() with no argument
Whitespace == {" ", "\t", "\n", "\r"}

\* str.startswith
startswith(s, p) == Len(s) >= Len(p) /\ SubSeq(s, 1, Len(p)) = p

RECURSIVE lstrip(_)
lstrip(s) == IF s # <<>> /\ Head(s) \in Whitespace THEN lstrip(Tail(s)) ELSE s

RECURSIVE rstrip(_)
rstrip(s) ==
    IF s # <<>> /\ s[Len(s)] \in Whitespace
    THEN rstrip(SubSeq(s, 1, Len(s) - 1))
    ELSE s

\* str.strip
strip(s) == rstrip(lstrip(s))

\* variant of join that separates the parts by a space
RECURSIVE join_with_space(_)
join_with_space(parts) ==
    IF parts = <<>> THEN <<>>
    ELSE IF Len(parts) = 1 THEN Head(parts)
    ELSE Head(parts) \o <<" ">> \o join_with_space(Tail(parts))

\* "".join(parts)
RECURSIVE join(_)
join(parts) == IF parts = <<>> THEN <<>> ELSE Head(parts) \o join(Tail(parts))

DigitChars == <<"0", "1", "2", "3", "4", "5", "6", "7", "8", "9">>

\* the decimal text of a natural number, as an f-string formats it
RECURSIVE Decimal(_)
Decimal(n) ==
    IF n < 10 THEN <<DigitChars[n + 1]>>
    ELSE Decimal(n \div 10) \o <<DigitChars[(n % 10) + 1]>>

(***************************************************************************)
(* Literals of the source                                                  *)
(***************************************************************************)
DataPrefix == <<"d", "a", "t", "a", ":", " ">>
DoneText == <<"[", "D", "O", "N", "E", "]">>
DoneFrame == <<"d", "a", "t", "a", ":", " ", "[", "D", "O", "N", "E", "]", "\n", "\n">>
ErrorFramePrefix == <<"d", "a", "t", "a", ":", " ", "[", "E", "R", "R", "O", "R", "]", " ">>
FrameEnd == <<"\n", "\n">>
Fallback == <<"I", " ", "u", "n", "d", "e", "r", "s", "t", "a", "n", "d", ".", " ", "C", "a", "n", " ", "y", "o", "u", " ", "t", "e", "l", "l", " ", "m", "e", " ", "m", "o", "r", "e", "?">>
ModelName == "Qwen2.5-1.5B-Instruct"
TimeoutDetail == <<"L", "L", "M", " ", "s", "e", "r", "v", "i", "c", "e", " ", "t", "i", "m", "e", "d", " ", "o", "u", "t", ".", " ", "P", "l", "e", "a", "s", "e", " ", "t", "r", "y", " ", "a", "g", "a", "i", "n", ".">>
StatusDetailPrefix == <<"L", "L", "M", " ", "r", "e", "t", "u", "r", "n", "e", "d", " ">>
ErrorDetailPrefix == <<"L", "L", "M", " ", "s", "e", "r", "v", "i", "c", "e", " ", "e", "r", "r", "o", "r", ":", " ">>

(***************************************************************************)
(* Parsed JSON values and the Python operations the reader applies         *)
(***************************************************************************)
VNull == [t |-> "null", v |-> <<>>]
VStr(s) == [t |-> "str", v |-> s]
VArr(items) == [t |-> "arr", v |-> items]
VObj(fields) == [t |-> "obj", v |-> fields]
NoFields == [k \in {} |-> VNull]

Ok(val) == [err |-> "none", val |-> val]
Err(cls) == [err |-> cls, val |-> VNull]

\* x.get(key, default): only a dict has .get
py_get(x, key, default) ==
    IF x.t # "obj" THEN Err("AttributeError")
    ELSE IF key \in DOMAIN x.v THEN Ok(x.v[key]) ELSE Ok(default)

\* x[0]
py_index0(x) ==
    CASE x.t = "arr" -> IF Len(x.v) = 0 THEN Err("IndexError") ELSE Ok(x.v[1])
      [] x.t = "str" -> IF Len(x.v) = 0 THEN Err("IndexError") ELSE Ok(VStr(<<x.v[1]>>))
      [] x.t = "obj" -> Err("KeyError")
      [] OTHER -> Err("TypeError")

\* truth value of a parsed value (if delta:)
truthy(x) ==
    CASE x.t = "str" -> x.v # <<>>
      [] x.t = "arr" -> Len(x.v) > 0
      [] x.t = "obj" -> DOMAIN x.v # {}
      [] OTHER -> FALSE

\* chunk.get("choices", [{}])[0].get("delta", {}).get("content", "")
delta_of(chunk) ==
    LET a == py_get(chunk, "choices", VArr(<<VObj(NoFields)>>)) IN
    IF a.err # "none" THEN a ELSE
    LET b == py_index0(a.val) IN
    IF b.err # "none" THEN b ELSE
    LET c == py_get(b.val, "delta", VObj(NoFields)) IN
    IF c.err # "none" THEN c ELSE
    py_get(c.val, "content", VStr(<<>>))

(***************************************************************************)
(* JSON documents the upstream may send: their text and their parse        *)
(***************************************************************************)
JStr(s) == <<"\"">> \o s \o <<"\"">>
JObj1(k, vtext) == <<"{">> \o JStr(k) \o <<":">> \o vtext \o <<"}">>
JArr1(vtext) == <<"[">> \o vtext \o <<"]">>
KChoices == <<"c", "h", "o", "i", "c", "e", "s">>
KDelta == <<"d", "e", "l", "t", "a">>
KContent == <<"c", "o", "n", "t", "e", "n", "t">>

\* {"choices":[{"delta": <delta>}]}
ChunkText(deltaText) == JObj1(KChoices, JArr1(JObj1(KDelta, deltaText)))
ChunkValue(deltaValue) ==
    VObj([choices |-> VArr(<<VObj([delta |-> deltaValue])>>)])

\* content values carried by upstream deltas
Contents == <<<<"a">>, <<" ", "b">>, <<" ">>, <<"[", "D", "O", "N", "E", "]">>>>

ContentDocs ==
    [i \in DOMAIN Contents |->
        [text |-> ChunkText(JObj1(KContent, JStr(Contents[i]))),
         value |-> ChunkValue(VObj([content |-> VStr(Contents[i])]))]]

OtherDocs == <<
    \* empty content
    [text |-> ChunkText(JObj1(KContent, JStr(<<>>))),
     value |-> ChunkValue(VObj([content |-> VStr(<<>>)]))],
    \* empty delta (role announcement already consumed)
    [text |-> ChunkText(<<"{", "}">>),
     value |-> ChunkValue(VObj(NoFields))],
    \* null content
    [text |-> ChunkText(JObj1(KContent, <<"n", "u", "l", "l">>)),
     value |-> ChunkValue(VObj([content |-> VNull]))],
    \* null delta
    [text |-> ChunkText(<<"n", "u", "l", "l">>),
     value |-> ChunkValue(VNull)],
    \* no delta
    [text |-> <<"{", "\"", "c", "h", "o", "i", "c", "e", "s", "\"", ":", "[", "{", "}", "]", "}">>,
     value |-> VObj([choices |-> VArr(<<VObj(NoFields)>>)])],
    \* finish-reason-only frame
    [text |-> <<"{", "\"", "c", "h", "o", "i", "c", "e", "s", "\"", ":", "[", "{", "\"", "d", "e", "l", "t", "a", "\"", ":", "{", "}", ",", "\"", "f", "i", "n", "i", "s", "h", "_", "r", "e", "a", "s", "o", "n", "\"", ":", "\"", "s", "t", "o", "p", "\"", "}", "]", "}">>,
     value |-> VObj([choices |-> VArr(<<VObj([delta |-> VObj(NoFields),
                                              finish_reason |-> VStr(<<"s", "t", "o", "p">>)])>>)])],
    \* empty choices list
    [text |-> <<"{", "\"", "c", "h", "o", "i", "c", "e", "s", "\"", ":", "[", "]", "}">>,
     value |-> VObj([choices |-> VArr(<<>>)])],
    \* no choices key
    [text |-> <<"{", "}">>,
     value |-> VObj(NoFields)]
>>

JsonDocs == ContentDocs \o OtherDocs

\* json.loads: the parse of a document, or JSONDecodeError
json_loads(text) ==
    LET hits == {i \in DOMAIN JsonDocs : JsonDocs[i].text = text} IN
    IF hits = {} THEN [ok |-> FALSE, value |-> VNull]
    ELSE [ok |-> TRUE, value |-> JsonDocs[CHOOSE i \in hits : TRUE].value]

(***************************************************************************)
(* Upstream responses: the SSE lines of a body                             *)
(***************************************************************************)
DataLine(payload) == DataPrefix \o payload

Lines ==
    {<<>>,                                      \* blank separator line
     <<"d", "a", "t", "a", ":", "[", "D", "O", "N", "E", "]">>,                           \* no space after the colon
     DataLine(DoneText),                        \* the sentinel
     DataLine(<<" ", "[", "D", "O", "N", "E", "]", " ">>),                    \* the sentinel, padded
     DataLine(<<"{", "\"", "c", "h", "o", "i", "c", "e", "s", "\"", ":", "[", "{", "\"", "d", "e", "l", "t", "a", "\"">>)}    \* a truncated document
    \cup {DataLine(JsonDocs[i].text) : i \in DOMAIN JsonDocs}

Bodies == UNION {[1..n -> Lines] : n \in 0..MaxLines}

\* status codes the upstream answers with
StatusCodes == {200, 500}

\* Response.is_success, which raise_for_status tests
is_success(code) == 200 <= code /\ code <= 299

(***************************************************************************)
(* Exceptions                                                              *)
(***************************************************************************)
NoExc == [cls |-> "none", code |-> 0, msg |-> <<>>]

\* str(exc) for the exceptions that occur
ExcMessage(cls) ==
    CASE cls = "IndexError" -> <<"l", "i", "s", "t", " ", "i", "n", "d", "e", "x", " ", "o", "u", "t", " ", "o", "f", " ", "r", "a", "n", "g", "e">>
      [] cls = "AttributeError" -> <<"'", "N", "o", "n", "e", "T", "y", "p", "e", "'", " ", "o", "b", "j", "e", "c", "t", " ", "h", "a", "s", " ", "n", "o", " ", "a", "t", "t", "r", "i", "b", "u", "t", "e", " ", "'", "g", "e", "t", "'">>
      [] cls = "ConnectError" -> <<"A", "l", "l", " ", "c", "o", "n", "n", "e", "c", "t", "i", "o", "n", " ", "a", "t", "t", "e", "m", "p", "t", "s", " ", "f", "a", "i", "l", "e", "d">>
      [] OTHER -> <<>>

Exc(cls) == [cls |-> cls, code |-> 0, msg |-> ExcMessage(cls)]
HTTPStatusError(code) ==
    [cls |-> "HTTPStatusError", code |-> code,
     msg |-> <<"S", "e", "r", "v", "e", "r", " ", "e", "r", "r", "o", "r", " ">> \o Decimal(code)]

\* subclasses of httpx.TimeoutException
TimeoutClasses == {"ConnectTimeout", "ReadTimeout", "WriteTimeout", "PoolTimeout"}
\* failures of opening the upstream call, and of reading its body
ConnectFailures == {"ConnectTimeout", "ConnectError"}
ReadFailures == {"ReadTimeout", "ReadError"}

(***************************************************************************)
(* stream_completion: what one line of the body does                       *)
(***************************************************************************)
Continue == [kind |-> "continue", chunk |-> <<>>, cls |-> "none"]
Break == [kind |-> "break", chunk |-> <<>>, cls |-> "none"]
Yield(chunk) == [kind |-> "yield", chunk |-> chunk, cls |-> "none"]
Raise(cls) == [kind |-> "raise", chunk |-> <<>>, cls |-> cls]

\* the payload of a data line: line[6:].strip()
payload_of(line) == strip(SubSeq(line, Len(DataPrefix) + 1, Len(line)))

\* variant of parse_and_extract that lets JSONDecodeError escape
parse_and_extract_uncaught(data) ==
    LET chunk == json_loads(data) IN
    IF ~chunk.ok THEN Raise("JSONDecodeError")
    ELSE LET delta == delta_of(chunk.value) IN
         IF delta.err # "none" THEN Raise(delta.err)
         ELSE IF truthy(delta.val) THEN Yield(delta.val.v)
         ELSE Continue

\* the body of the try block: parse, extract, yield when truthy
parse_and_extract(data) ==
    LET chunk == json_loads(data) IN
    IF ~chunk.ok THEN Continue
    ELSE LET delta == delta_of(chunk.value) IN
         IF delta.err # "none" THEN Raise(delta.err)
         ELSE IF truthy(delta.val) THEN Yield(delta.val.v)
         ELSE Continue

\* variant of line_step that does not test for the sentinel
line_step_without_sentinel(line) ==
    IF ~startswith(line, DataPrefix) THEN Continue
    ELSE parse_and_extract(payload_of(line))

\* one iteration of the async for loop
line_step(line) ==
    IF ~startswith(line, DataPrefix) THEN Continue
    ELSE LET data == payload_of(line) IN
         IF data = DoneText THEN Break
         ELSE parse_and_extract(data)

(***************************************************************************)
(* Handlers' outputs                                                       *)
(***************************************************************************)
\* f"data: {chunk}\n\n"
frame_of(chunk) == DataPrefix \o chunk \o FrameEnd

\* f"data: [ERROR] {exc}\n\n"
error_frame_of(e) == ErrorFramePrefix \o e.msg \o FrameEnd

\* variant of completion_text that does not strip the joined text
completion_text_unstripped(parts) ==
    IF join(parts) # <<>> THEN join(parts) ELSE Fallback

\* variant of completion_text that substitutes no fallback
completion_text_without_fallback(parts) == strip(join(parts))

\* "".join(parts).strip() or "I understand. Can you tell me more?"
completion_text(parts) ==
    LET text == strip(join(parts)) IN
    IF text # <<>> THEN text ELSE Fallback

\* variant of completion_count that counts the characters of the text
completion_count_of_text(ps) == Len(completion_text(ps))

\* the second value get_completion returns: len(parts)
completion_count(ps) == Len(ps)

NoResult ==
    [status |-> 0, response |-> <<>>, model |-> "", tokens_used |-> 0,
     detail |-> <<>>]

ChatResponse(text, tokens) ==
    [status |-> 200, response |-> text, model |-> ModelName,
     tokens_used |-> tokens, detail |-> <<>>]

HTTPException(code, detail) ==
    [status |-> code, response |-> <<>>, model |-> "", tokens_used |-> 0,
     detail |-> detail]

\* variant of chat_error whose generic clause comes first
chat_error_generic_first(e) == HTTPException(502, ErrorDetailPrefix \o e.msg)

\* the except clauses of chat, in their order
chat_error(e) ==
    IF e.cls \in TimeoutClasses THEN HTTPException(504, TimeoutDetail)
    ELSE IF e.cls = "HTTPStatusError"
         THEN HTTPException(502, StatusDetailPrefix \o Decimal(e.code))
    ELSE HTTPException(502, ErrorDetailPrefix \o e.msg)

(***************************************************************************)
(* _build_messages                                                         *)
(***************************************************************************)
\* system_msg
system_msg ==
    [role |-> "system",
     content |-> <<"Y", "o", "u", " ", "a", "r", "e", " ", "a", " ", "h", "e", "l", "p", "f", "u", "l", " ", "v", "o", "i", "c", "e", " ", "a", "s", "s", "i", "s", "t", "a", "n", "t", ".", " ">>
                 \o <<"K", "e", "e", "p", " ", "r", "e", "s", "p", "o", "n", "s", "e", "s", " ", "c", "o", "n", "c", "i", "s", "e", " ", "(", "1", "-", "2", " ", "s", "e", "n", "t", "e", "n", "c", "e", "s", " ", "m", "a", "x", ")", " ">>
                 \o <<"f", "o", "r", " ", "n", "a", "t", "u", "r", "a", "l", " ", "c", "o", "n", "v", "e", "r", "s", "a", "t", "i", "o", "n", ".", " ", "B", "e", " ", "f", "r", "i", "e", "n", "d", "l", "y", " ", "a", "n", "d", " ", "d", "i", "r", "e", "c", "t", ".">>]

\* the 6 of history[-6:]
HistoryWindow == 6

\* variant of history_tail that takes the first turns: history[:6]
history_head(h) ==
    SubSeq(h, 1, IF Len(h) > HistoryWindow THEN HistoryWindow ELSE Len(h))

\* history[-6:]
history_tail(h) ==
    SubSeq(h, IF Len(h) > HistoryWindow THEN Len(h) - HistoryWindow + 1 ELSE 1,
           Len(h))

\* {"role": m.role, "content": m.content} for each m, in order
RECURSIVE turns_of(_)
turns_of(ms) ==
    IF Len(ms) = 0 THEN <<>>
    ELSE <<[role |-> ms[1].role, content |-> ms[1].content]>>
         \o turns_of(SubSeq(ms, 2, Len(ms)))

build_messages(m, h) ==
    (<<system_msg>> \o turns_of(history_tail(h)))
        \o <<[role |-> "user", content |-> m]>>

\* the requests _build_messages is applied to: ChatMessage values with the
\* roles of the schema, and histories shorter and longer than the window
MaxHistory == 7
ChatMessages ==
    {[role |-> "user", content |-> <<"h", "i">>],
     [role |-> "assistant", content |-> <<"y", "o">>],
     [role |-> "system", content |-> <<"b", "e", " ", "b", "r", "i", "e", "f">>]}
Messages == {<<"h", "i">>, <<"w", "h", "y">>}

RECURSIVE Histories(_)
Histories(n) ==
    IF n = 0 THEN {<<>>}
    ELSE LET shorter == Histories(n - 1) IN
         shorter \cup {Append(h, m) : h \in {x \in shorter : Len(x) = n - 1},
                                      m \in ChatMessages}

(***************************************************************************)
(* State                                                                   *)
(***************************************************************************)
\* the two requests served for one upstream response: chat_stream and chat
Handlers == {"stream", "chat"}

\* the coroutines that use the shared client at the same time, each calling
\* _get_client or close_client once, and the clients they may construct
MaxTasks == 4
Tasks == 1..MaxTasks
MaxClients == 3

VARIABLES
    status,     \* the upstream response's status code
    body,       \* the upstream response's body, a sequence of lines
    pc,         \* per request: where its stream_completion call stands
    pos,        \* per request: lines taken from the upstream body
    exc,        \* per request: the exception raised, or NoExc
    yielded,    \* per request: the fragments stream_completion has yielded
    frame,      \* chat_stream: the frame yielded and not yet sent
    frames,     \* chat_stream: the frames sent to the caller
    parts,      \* get_completion: parts
    result,     \* chat: the response or HTTP error returned
    posts,      \* per request: the POSTs its stream_completion call has issued
    resp,       \* per request: its upstream response: none, open or closed
    client,     \* the module's _client: 0 for None, else an index of clients
    clients,    \* every client constructed so far, in order of construction
    task_pc,    \* per pool task: where its _get_client or close_client stands
    got,        \* per pool task: the client it was returned or closed, 0 if none
    message,    \* a request's message
    history,    \* a request's history
    msgs        \* the list _build_messages returned, <<>> before the call

chat_vars == <<status, body, pc, pos, exc, yielded, frame, frames, parts, result,
               posts, resp>>
task_vars == <<task_pc, got>>
request_vars == <<message, history, msgs>>
vars == <<chat_vars, client, clients, task_vars, request_vars>>

\* no request has been received
NoRequests ==
    /\ pc = [h \in Handlers |-> "idle"]
    /\ pos = [h \in Handlers |-> 0]
    /\ exc = [h \in Handlers |-> NoExc]
    /\ yielded = [h \in Handlers |-> <<>>]
    /\ frame = <<>>
    /\ frames = <<>>
    /\ parts = <<>>
    /\ result = NoResult
    /\ posts = [h \in Handlers |-> 0]
    /\ resp = [h \in Handlers |-> "none"]

\* _client: httpx.AsyncClient | None = None
NoClient ==
    /\ client = 0
    /\ clients = <<>>

\* no task uses the pool
NoTasks ==
    /\ task_pc = [t \in Tasks |-> "idle"]
    /\ got = [t \in Tasks |-> 0]

\* the body of the request the handlers serve
OneRequest ==
    /\ message = <<"h", "i">>
    /\ history = <<>>
    /\ msgs = <<>>

Init ==
    /\ status \in StatusCodes
    /\ body \in Bodies
    /\ NoRequests
    /\ NoClient
    /\ NoTasks
    /\ OneRequest

(***************************************************************************)
(* The shared client                                                       *)
(***************************************************************************)
\* httpx.AsyncClient(...): an open client whose close has run no time
NewClient == [closed |-> FALSE, closes |-> 0]

\* variant of get_client_constructs that is true on every call
get_client_always_constructs == TRUE

\* if _client is None or _client.is_closed
get_client_constructs == client = 0 \/ clients[client].closed

\* _client and the clients constructed when _get_client returns; the
\* function holds no await, so it runs from its test to its return in one
\* step of the event loop
get_client_client ==
    IF get_client_constructs THEN Len(clients) + 1 ELSE client

get_client_clients ==
    IF get_client_constructs THEN Append(clients, NewClient) ELSE clients

(***************************************************************************)
(* stream_completion, run by either handler                                *)
(***************************************************************************)
\* variant of aexit that leaves the response as it is
aexit_leaking(r) == r

\* leaving "async with client.stream(...) as resp" closes the response
aexit(r) == IF r = "open" THEN "closed" ELSE r

\* variant of may_read that also reads while a frame awaits the caller
may_read_ahead(h) == pc[h] \in {"reading", "sending"}

\* the generator runs on to the next line only when its consumer asks for
\* the next fragment: chat_stream asks once the frame it yielded was taken
may_read(h) == pc[h] = "reading"

\* client = await _get_client(), the payload is built, then
\* client.stream("POST", ...): the POST is sent and the response headers arrive, or connecting fails.  The caller
\* sends the request to /api/chat/stream first and replays it on /api/chat
\* once that stream is closed; the two requests share nothing but the client
\* and the upstream response they are answered with.
stream_open(h) ==
    /\ pc[h] = "idle"
    /\ h = "chat" => pc["stream"] = "closed"
    /\ client' = get_client_client
    /\ clients' = get_client_clients
    /\ posts' = [posts EXCEPT ![h] = posts[h] + 1]
    /\ \/ /\ pc' = [pc EXCEPT ![h] = "opened"]
          /\ resp' = [resp EXCEPT ![h] = "open"]
          /\ exc' = exc
       \/ \E cls \in ConnectFailures :
            /\ pc' = [pc EXCEPT ![h] = "raised"]
            /\ exc' = [exc EXCEPT ![h] = Exc(cls)]
            /\ resp' = resp
    /\ msgs' = build_messages(message, history)
    /\ UNCHANGED <<status, body, pos, yielded, frame, frames, parts, result>>
    /\ UNCHANGED <<task_vars, message, history>>

\* variant of raise_for_status that never raises
raise_for_status_skipped(h) ==
    /\ pc[h] = "opened"
    /\ pc' = [pc EXCEPT ![h] = "reading"]
    /\ UNCHANGED <<status, body, pos, exc, yielded, frame, frames, parts, result>>
    /\ UNCHANGED <<posts, resp, client, clients, task_vars, request_vars>>

\* resp.raise_for_status()
raise_for_status(h) ==
    /\ pc[h] = "opened"
    /\ IF is_success(status)
       THEN /\ pc' = [pc EXCEPT ![h] = "reading"]
            /\ UNCHANGED <<exc, resp>>
       ELSE /\ pc' = [pc EXCEPT ![h] = "raised"]
            /\ exc' = [exc EXCEPT ![h] = HTTPStatusError(status)]
            /\ resp' = [resp EXCEPT ![h] = aexit(resp[h])]
    /\ UNCHANGED <<status, body, pos, yielded, frame, frames, parts, result>>
    /\ UNCHANGED <<posts, client, clients, task_vars, request_vars>>

\* variant of read_fails that sends the request again after a failed read
read_fails_retried(h) ==
    /\ may_read(h)
    /\ pc' = [pc EXCEPT ![h] = "opened"]
    /\ pos' = [pos EXCEPT ![h] = 0]
    /\ posts' = [posts EXCEPT ![h] = posts[h] + 1]
    /\ UNCHANGED <<status, body, exc, yielded, frame, frames, parts, result>>
    /\ UNCHANGED <<resp, client, clients, task_vars, request_vars>>

\* a read of the body fails (timeout, transport error)
read_fails(h) ==
    /\ may_read(h)
    /\ \E cls \in ReadFailures :
         /\ pc' = [pc EXCEPT ![h] = "raised"]
         /\ exc' = [exc EXCEPT ![h] = Exc(cls)]
    /\ resp' = [resp EXCEPT ![h] = aexit(resp[h])]
    /\ UNCHANGED <<status, body, pos, yielded, frame, frames, parts, result>>
    /\ UNCHANGED <<posts, client, clients, task_vars, request_vars>>

\* the body ends: the async for loop is exhausted
read_eof(h) ==
    /\ may_read(h)
    /\ pos[h] = Len(body)
    /\ pc' = [pc EXCEPT ![h] = "ended"]
    /\ resp' = [resp EXCEPT ![h] = aexit(resp[h])]
    /\ UNCHANGED <<status, body, pos, exc, yielded, frame, frames, parts, result>>
    /\ UNCHANGED <<posts, client, clients, task_vars, request_vars>>

\* the next line arrives and the loop body runs on it; a fragment yielded
\* goes to the consumer: chat_stream frames it, get_completion appends it
read_line(h) ==
    /\ may_read(h)
    /\ pos[h] < Len(body)
    /\ LET r == line_step(body[pos[h] + 1]) IN
        /\ pos' = [pos EXCEPT ![h] = pos[h] + 1]
        /\ CASE r.kind = "continue" ->
                  UNCHANGED <<pc, exc, yielded, frame, parts, resp>>
             [] r.kind = "break" ->
                  /\ pc' = [pc EXCEPT ![h] = "ended"]
                  /\ resp' = [resp EXCEPT ![h] = aexit(resp[h])]
                  /\ UNCHANGED <<exc, yielded, frame, parts>>
             [] r.kind = "raise" ->
                  /\ pc' = [pc EXCEPT ![h] = "raised"]
                  /\ exc' = [exc EXCEPT ![h] = Exc(r.cls)]
                  /\ resp' = [resp EXCEPT ![h] = aexit(resp[h])]
                  /\ UNCHANGED <<yielded, frame, parts>>
             [] r.kind = "yield" ->
                  /\ yielded' = [yielded EXCEPT ![h] = Append(yielded[h], r.chunk)]
                  /\ UNCHANGED <<exc, resp>>
                  /\ IF h = "stream"
                     THEN /\ frame' = frame_of(r.chunk)
                          /\ pc' = [pc EXCEPT ![h] = "sending"]
                          /\ parts' = parts
                     ELSE /\ parts' = Append(parts, r.chunk)
                          /\ UNCHANGED <<pc, frame>>
    /\ UNCHANGED <<status, body, frames, result>>
    /\ UNCHANGED <<posts, client, clients, task_vars, request_vars>>

(***************************************************************************)
(* chat_stream._event_generator                                            *)
(***************************************************************************)
\* the frame of a fragment is handed to the caller
event_generator_send ==
    /\ pc["stream"] = "sending"
    /\ frames' = Append(frames, frame)
    /\ frame' = <<>>
    /\ pc' = [pc EXCEPT !["stream"] = "reading"]
    /\ UNCHANGED <<status, body, pos, exc, yielded, parts, result>>
    /\ UNCHANGED <<posts, resp, client, clients, task_vars, request_vars>>

\* yield "data: [DONE]\n\n"
event_generator_done ==
    /\ pc["stream"] = "ended"
    /\ frames' = Append(frames, DoneFrame)
    /\ pc' = [pc EXCEPT !["stream"] = "closed"]
    /\ UNCHANGED <<status, body, pos, exc, yielded, frame, parts, result>>
    /\ UNCHANGED <<posts, resp, client, clients, task_vars, request_vars>>

\* except Exception as exc: yield f"data: [ERROR] {exc}\n\n"
event_generator_except ==
    /\ pc["stream"] = "raised"
    /\ frames' = Append(frames, error_frame_of(exc["stream"]))
    /\ pc' = [pc EXCEPT !["stream"] = "closed"]
    /\ UNCHANGED <<status, body, pos, exc, yielded, frame, parts, result>>
    /\ UNCHANGED <<posts, resp, client, clients, task_vars, request_vars>>

\* the caller of chat_stream goes away while stream_completion holds the
\* upstream response: the server stops iterating _event_generator, which is
\* suspended awaiting the next line or at its yield, and asks for no more
disconnect ==
    /\ pc["stream"] \in {"reading", "sending"}
    /\ pc' = [pc EXCEPT !["stream"] = "cancelled"]
    /\ UNCHANGED <<status, body, pos, exc, yielded, frame, frames, parts, result>>
    /\ UNCHANGED <<posts, resp, client, clients, task_vars, request_vars>>

\* variant of generator_exit in which the response is not released
generator_exit_without_release ==
    /\ pc["stream"] = "cancelled"
    /\ pc' = [pc EXCEPT !["stream"] = "aborted"]
    /\ UNCHANGED <<status, body, pos, exc, yielded, frame, frames, parts, result>>
    /\ UNCHANGED <<posts, resp, client, clients, task_vars, request_vars>>

\* the abandoned generators are closed: CancelledError or GeneratorExit is
\* raised where they are suspended, "except Exception" does not catch
\* either, and the async with block of stream_completion is left
generator_exit ==
    /\ pc["stream"] = "cancelled"
    /\ resp' = [resp EXCEPT !["stream"] = aexit(resp["stream"])]
    /\ pc' = [pc EXCEPT !["stream"] = "aborted"]
    /\ UNCHANGED <<status, body, pos, exc, yielded, frame, frames, parts, result>>
    /\ UNCHANGED <<posts, client, clients, task_vars, request_vars>>

(***************************************************************************)
(* chat, over get_completion                                               *)
(***************************************************************************)
\* get_completion returns (text, len(parts)); chat returns the ChatResponse
chat_return ==
    /\ pc["chat"] = "ended"
    /\ result' = ChatResponse(completion_text(parts), completion_count(parts))
    /\ pc' = [pc EXCEPT !["chat"] = "closed"]
    /\ UNCHANGED <<status, body, pos, exc, yielded, frame, frames, parts>>
    /\ UNCHANGED <<posts, resp, client, clients, task_vars, request_vars>>

\* the except clauses of chat
chat_except ==
    /\ pc["chat"] = "raised"
    /\ result' = chat_error(exc["chat"])
    /\ pc' = [pc EXCEPT !["chat"] = "closed"]
    /\ UNCHANGED <<status, body, pos, exc, yielded, frame, frames, parts>>
    /\ UNCHANGED <<posts, resp, client, clients, task_vars, request_vars>>

Next ==
    \/ \E h \in Handlers :
         \/ stream_open(h)
         \/ raise_for_status(h)
         \/ read_fails(h)
         \/ read_eof(h)
         \/ read_line(h)
    \/ event_generator_send
    \/ event_generator_done
    \/ event_generator_except
    \/ disconnect
    \/ generator_exit
    \/ chat_return
    \/ chat_except

Spec == Init /\ [][Next]_vars

\* the event loop runs the closing of an abandoned generator: a cancelled
\* task is resumed with CancelledError, and a generator no longer referenced
\* is closed by the loop's asynchronous-generator finalizer
FairSpec == Spec /\ WF_vars(generator_exit)

(***************************************************************************)
(* _get_client and close_client called by concurrent coroutines            *)
(***************************************************************************)
InitPool ==
    /\ status = 200 /\ body = <<>>
    /\ NoRequests
    /\ NoClient
    /\ NoTasks
    /\ OneRequest

\* client = await _get_client()
get_client(t) ==
    /\ task_pc[t] = "idle"
    /\ get_client_constructs => Len(clients) < MaxClients
    /\ client' = get_client_client
    /\ clients' = get_client_clients
    /\ got' = [got EXCEPT ![t] = get_client_client]
    /\ task_pc' = [task_pc EXCEPT ![t] = "acquired"]
    /\ UNCHANGED <<chat_vars, request_vars>>

\* variant of close_client_closes that does not look at is_closed
close_client_closes_any == client # 0

\* if _client is not None and not _client.is_closed
close_client_closes == client # 0 /\ ~clients[client].closed

\* close_client up to its await: _client.aclose() marks the client closed
\* and suspends while the transport closes; otherwise the call returns
close_client_begin(t) ==
    /\ task_pc[t] = "idle"
    /\ IF close_client_closes
       THEN /\ clients' = [clients EXCEPT ![client] =
                              [closed |-> TRUE, closes |-> @.closes + 1]]
            /\ got' = [got EXCEPT ![t] = client]
            /\ task_pc' = [task_pc EXCEPT ![t] = "closing"]
       ELSE /\ task_pc' = [task_pc EXCEPT ![t] = "released"]
            /\ UNCHANGED <<clients, got>>
    /\ client' = client
    /\ UNCHANGED <<chat_vars, request_vars>>

\* close_client after its await: _client = None
close_client_end(t) ==
    /\ task_pc[t] = "closing"
    /\ client' = 0
    /\ task_pc' = [task_pc EXCEPT ![t] = "released"]
    /\ UNCHANGED <<clients, got>>
    /\ UNCHANGED <<chat_vars, request_vars>>

NextPool ==
    \E t \in Tasks :
        \/ get_client(t)
        \/ close_client_begin(t)
        \/ close_client_end(t)

SpecPool == InitPool /\ [][NextPool]_vars

(***************************************************************************)
(* _build_messages applied to every request of the bounded set             *)
(***************************************************************************)
InitMessages ==
    /\ status = 200 /\ body = <<>>
    /\ NoRequests
    /\ NoClient
    /\ NoTasks
    /\ message \in Messages
    /\ history \in Histories(MaxHistory)
    /\ msgs = <<>>

\* msgs = _build_messages(message, history)
call_build_messages ==
    /\ msgs = <<>>
    /\ msgs' = build_messages(message, history)
    /\ UNCHANGED <<message, history>>
    /\ UNCHANGED <<chat_vars, client, clients, task_vars>>

NextMessages == call_build_messages

SpecMessages == InitMessages /\ [][NextMessages]_vars

(***************************************************************************)
(* Vocabulary of the properties, stated apart from the reader's code       *)
(***************************************************************************)
AllWhitespace(s) == \A i \in 1..Len(s) : s[i] \in Whitespace

\* the first index from i upwards, and the last from i downwards, that
\* holds no whitespace (Len(s) + 1 and 0 when there is none)
RECURSIVE FirstSolid(_, _)
FirstSolid(s, i) ==
    IF i > Len(s) \/ s[i] \notin Whitespace THEN i ELSE FirstSolid(s, i + 1)

RECURSIVE LastSolid(_, _)
LastSolid(s, i) ==
    IF i < 1 \/ s[i] \notin Whitespace THEN i ELSE LastSolid(s, i - 1)

\* s without its leading and trailing whitespace
Trimmed(s) == SubSeq(s, FirstSolid(s, 1), LastSolid(s, Len(s)))

RECURSIVE ConcatAll(_)
ConcatAll(seq) ==
    IF Len(seq) = 0 THEN <<>>
    ELSE ConcatAll(SubSeq(seq, 1, Len(seq) - 1)) \o seq[Len(seq)]

IsDataLine(line) ==
    /\ Len(line) >= 6
    /\ line[1] = "d" /\ line[2] = "a" /\ line[3] = "t" /\ line[4] = "a"
    /\ line[5] = ":" /\ line[6] = " "

PayloadOf(line) == Trimmed(SubSeq(line, 7, Len(line)))

IsDoneLine(line) == IsDataLine(line) /\ PayloadOf(line) = DoneText

\* the documents whose text is the payload of a line
DocsOfLine(line) ==
    LET p == PayloadOf(line) IN {i \in DOMAIN JsonDocs : JsonDocs[i].text = p}

\* a data line whose payload is one of the documents
IsJsonLine(line) == IsDataLine(line) /\ DocsOfLine(line) # {}

\* a data line, not the sentinel, whose payload is no JSON document
IsInvalidJsonLine(line) ==
    IsDataLine(line) /\ ~IsDoneLine(line) /\ ~IsJsonLine(line)

\* choices[0].delta.content of a document when it is there and a string,
\* the empty text otherwise
ContentOfDoc(d) ==
    IF /\ d.t = "obj" /\ "choices" \in DOMAIN d.v
       /\ d.v["choices"].t = "arr" /\ Len(d.v["choices"].v) > 0
    THEN LET c == d.v["choices"].v[1] IN
         IF /\ c.t = "obj" /\ "delta" \in DOMAIN c.v
            /\ c.v["delta"].t = "obj" /\ "content" \in DOMAIN c.v["delta"].v
            /\ c.v["delta"].v["content"].t = "str"
         THEN c.v["delta"].v["content"].v
         ELSE <<>>
    ELSE <<>>

ContentOfLine(line) ==
    IF IsJsonLine(line)
    THEN ContentOfDoc(JsonDocs[CHOOSE i \in DocsOfLine(line) : TRUE].value)
    ELSE <<>>

\* the non-empty contents of the data lines before the first sentinel
RECURSIVE ContentsBeforeDone(_)
ContentsBeforeDone(lines) ==
    IF lines = <<>> \/ IsDoneLine(Head(lines)) THEN <<>>
    ELSE LET c == ContentOfLine(Head(lines)) IN
         (IF c # <<>> THEN <<c>> ELSE <<>>) \o ContentsBeforeDone(Tail(lines))

\* the lines request h has taken from the body
Consumed(h) == SubSeq(body, 1, pos[h])

\* the call of request h ended otherwise than by a failure of the upstream
\* connection or a non-success status
NotCutOff(h) ==
    /\ pc[h] \in {"ended", "closed"}
    /\ exc[h].cls \notin ConnectFailures \cup ReadFailures \cup {"HTTPStatusError"}

\* the text a frame carries between "data: " and the blank line
FrameText(f) == SubSeq(f, 7, Len(f) - 2)
IsFrame(f) ==
    /\ Len(f) >= 8 /\ IsDataLine(f)
    /\ f[Len(f) - 1] = "\n" /\ f[Len(f)] = "\n"
IsDoneFrame(f) == IsFrame(f) /\ FrameText(f) = DoneText
IsErrorFrame(f) ==
    /\ IsFrame(f) /\ Len(FrameText(f)) >= 8
    /\ SubSeq(FrameText(f), 1, 8) = <<"[", "E", "R", "R", "O", "R", "]", " ">>

\* the texts of the frames sent before the last one
StreamedTexts == [i \in 1..(Len(frames) - 1) |-> FrameText(frames[i])]

(***************************************************************************)
(* Properties                                                              *)
(***************************************************************************)
\* both requests ran to a successful end on the same upstream response
BothSucceeded ==
    /\ pc["stream"] = "closed" /\ exc["stream"] = NoExc
    /\ pc["chat"] = "closed" /\ result.status = 200

\* C1 (as stated): when both handlers succeed on the same upstream response,
\* the texts of the frames chat_stream sent before its terminal frame,
\* concatenated in order, equal the response string chat returns.
C1_StreamEqualsAggregate ==
    BothSucceeded => ConcatAll(StreamedTexts) = result.response

\* C1 (amended): when both handlers succeed on the same upstream response,
\* the response string chat returns is the concatenation of the streamed
\* frame texts with its leading and trailing whitespace removed, or the
\* fallback sentence when that concatenation is empty or whitespace-only.
C1_StreamMatchesAggregateTrimmed ==
    BothSucceeded =>
        result.response =
            IF AllWhitespace(ConcatAll(StreamedTexts)) THEN Fallback
            ELSE Trimmed(ConcatAll(StreamedTexts))

\* both handlers succeeded on two fragments and the two outputs differ
C1_Witness ==
    /\ BothSucceeded
    /\ Len(frames) = 3
    /\ result.response # Fallback
    /\ result.response # ConcatAll(StreamedTexts)

\* C2: a closed stream ends with one terminal frame, its last: the [DONE]
\* frame exactly when no failure occurred, an [ERROR] frame exactly when
\* one did; the stream holds at most one [DONE] frame, at most one [ERROR]
\* frame, and never both.
C2_OneTerminalFrame ==
    pc["stream"] = "closed" =>
        /\ frames # <<>>
        /\ IsDoneFrame(frames[Len(frames)]) <=> exc["stream"] = NoExc
        /\ IsErrorFrame(frames[Len(frames)]) <=> exc["stream"] # NoExc
        /\ Cardinality({i \in DOMAIN frames : IsDoneFrame(frames[i])}) <= 1
        /\ Cardinality({i \in DOMAIN frames : IsErrorFrame(frames[i])}) <= 1
        /\ ~ \E i, j \in DOMAIN frames :
               IsDoneFrame(frames[i]) /\ IsErrorFrame(frames[j])

\* C3: for every upstream body read without a failure of the connection,
\* the fragments stream_completion yields, and the frames chat_stream
\* forwards, are in order the non-empty choices[0].delta.content values of
\* the data lines before the first [DONE] line.
C3_FragmentsAreTheContents ==
    \A h \in Handlers :
        NotCutOff(h) =>
            /\ yielded[h] = ContentsBeforeDone(body)
            /\ (h = "stream" /\ pc[h] = "closed" /\ exc[h] = NoExc)
                   => StreamedTexts = ContentsBeforeDone(body)

\* request h has taken a [DONE] line from the body
DoneSeen(h) == \E i \in 1..pos[h] : IsDoneLine(body[i])

\* the index of the first [DONE] line of the body
FirstDone == CHOOSE i \in DOMAIN body :
                 IsDoneLine(body[i]) /\ \A j \in 1..(i - 1) : ~IsDoneLine(body[j])

\* C4: in every state in which the reader has taken a [DONE] line, that
\* line is the first [DONE] line of the body and the last line taken, the
\* reader has ended without an error, and the fragments yielded are the
\* contents of the lines before it: the sentinel yields nothing, no later
\* line is read, and no content of a later line is yielded.
C4_DoneStopsReading ==
    \A h \in Handlers :
        DoneSeen(h) =>
            /\ pos[h] = FirstDone
            /\ pc[h] \in {"ended", "closed"}
            /\ exc[h] = NoExc
            /\ yielded[h] = ContentsBeforeDone(SubSeq(body, 1, pos[h] - 1))
            /\ h = "stream" => Len(frames) <= Len(yielded[h]) + 1
            /\ h = "chat" => parts = yielded[h]

\* the stream closed after a [DONE] line that a content line follows
C4_Witness ==
    /\ pc["stream"] = "closed"
    /\ DoneSeen("stream")
    /\ pos["stream"] < Len(body)
    /\ ContentOfLine(body[Len(body)]) # <<>>

\* a line the reader must pass over: no data prefix, or a payload that is
\* neither the sentinel nor a JSON document
IsSkippedLine(line) == ~IsDataLine(line) \/ IsInvalidJsonLine(line)

\* the last line request h has taken is one the reader must pass over
SkippedLast(h) == pos[h] > 0 /\ IsSkippedLine(body[pos[h]])

\* C5: in every state the fragments yielded are the contents of the lines
\* taken so far, so a line without the data prefix and a data line whose
\* payload is not valid JSON contribute nothing and a fragment on a line
\* taken after them is yielded; and when such a line is the last one taken,
\* no error was raised by it: the reader is still reading, or has stopped
\* because the body ended there or because a later read failed.
C5_SkippedLinesAreHarmless ==
    \A h \in Handlers :
        /\ yielded[h] = ContentsBeforeDone(Consumed(h))
        /\ SkippedLast(h) =>
              /\ exc[h].cls \in {"none"} \cup ReadFailures
              /\ pc[h] # "sending"
              /\ (pc[h] \in {"ended", "closed"} /\ exc[h] = NoExc)
                     => pos[h] = Len(body)

\* a fragment was yielded from the line after a skipped first line
C5_Witness ==
    /\ pos["chat"] = 2
    /\ IsSkippedLine(body[1])
    /\ yielded["chat"] # <<>>

\* a data line whose JSON document has no, or an empty, content
IsContentlessLine(line) == IsJsonLine(line) /\ ContentOfLine(line) = <<>>

\* the last line request h has taken is a contentless one
ContentlessLast(h) == pos[h] > 0 /\ IsContentlessLine(body[pos[h]])

\* C6: a data line whose payload parses as JSON but holds no or an empty
\* choices[0].delta.content yields nothing and raises nothing: when such a
\* line is the last one taken, the fragments yielded are those of the lines
\* before it and the reader is still reading, or has stopped because the
\* body ended there or because a later read failed.
C6_ContentlessLinesAreSkipped ==
    \A h \in Handlers :
        ContentlessLast(h) =>
            /\ yielded[h] = ContentsBeforeDone(SubSeq(body, 1, pos[h] - 1))
            /\ exc[h].cls \in {"none"} \cup ReadFailures
            /\ pc[h] # "sending"
            /\ (pc[h] \in {"ended", "closed"} /\ exc[h] = NoExc)
                   => pos[h] = Len(body)

\* C7: under a non-success upstream status no body line is taken and no
\* fragment is yielded; the call fails at raise_for_status (unless the
\* connection failed before), never after a partial stream.
C7_StatusErrorBeforeAnyLine ==
    ~(200 <= status /\ status <= 299) =>
        \A h \in Handlers :
            /\ pos[h] = 0
            /\ yielded[h] = <<>>
            /\ pc[h] \in {"idle", "opened", "raised", "closed"}
            /\ pc[h] \in {"raised", "closed"}
                   => exc[h].cls \in {"HTTPStatusError"} \cup ConnectFailures
            /\ exc[h].cls = "HTTPStatusError" => exc[h].code = status

\* the stream failed with the status error although the body has lines
C7_Witness ==
    /\ status = 500
    /\ Len(body) > 0
    /\ pc["stream"] = "closed"
    /\ exc["stream"].cls = "HTTPStatusError"

\* the decimal digits of the status codes the upstream answers with
StatusDigits ==
    CASE status = 200 -> <<"2", "0", "0">>
      [] status = 500 -> <<"5", "0", "0">>
      [] OTHER -> <<"?">>

EndsWith(s, t) == Len(s) >= Len(t) /\ SubSeq(s, Len(s) - Len(t) + 1, Len(s)) = t

\* C8: chat returns a success response only when nothing failed; after a
\* failure at any point its outcome carries no text and is 504 for a
\* timeout, 502 naming the upstream status code for a non-success upstream
\* status, and 502 for any other failure.
C8_FailuresBecomeErrorStatus ==
    pc["chat"] = "closed" =>
        /\ result.status = 200 <=> exc["chat"] = NoExc
        /\ exc["chat"] # NoExc =>
              /\ result.response = <<>>
              /\ result.status =
                    IF exc["chat"].cls \in {"ConnectTimeout", "ReadTimeout"}
                    THEN 504 ELSE 502
              /\ exc["chat"].cls = "HTTPStatusError"
                    => EndsWith(result.detail, StatusDigits)

\* chat answered 504 to a read timeout that came after a fragment
C8_Witness ==
    /\ pc["chat"] = "closed"
    /\ exc["chat"].cls = "ReadTimeout"
    /\ parts # <<>>
    /\ result.status = 504

\* C9: the text get_completion returns is never empty or whitespace-only;
\* it is the fallback sentence whenever the concatenation of the fragments
\* is empty or whitespace-only, and with zero fragments the count is 0.
C9_NeverEmptyText ==
    result.status = 200 =>
        /\ ~AllWhitespace(result.response)
        /\ AllWhitespace(ConcatAll(yielded["chat"]))
               => result.response = Fallback
        /\ yielded["chat"] = <<>>
               => (result.response = Fallback /\ result.tokens_used = 0)

\* chat returned the fallback for fragments that are all whitespace
C9_Witness ==
    /\ result.status = 200
    /\ yielded["chat"] # <<>>
    /\ result.response = Fallback

\* C10 (as stated): when the fragments are not all whitespace, the text is
\* exactly their concatenation in arrival order.
C10_TextIsConcatenation ==
    (result.status = 200 /\ ~AllWhitespace(ConcatAll(yielded["chat"])))
        => result.response = ConcatAll(yielded["chat"])

\* C10 (amended): when the fragments are not all whitespace, the text is
\* their concatenation in arrival order with its leading and trailing
\* whitespace removed, and nothing else added, removed or altered.
C10_TextIsTrimmedConcatenation ==
    (result.status = 200 /\ ~AllWhitespace(ConcatAll(yielded["chat"])))
        => result.response = Trimmed(ConcatAll(yielded["chat"]))

\* chat returned a text of two fragments that is not their concatenation
C10_Witness ==
    /\ result.status = 200
    /\ Len(yielded["chat"]) = 2
    /\ ~AllWhitespace(ConcatAll(yielded["chat"]))
    /\ result.response # ConcatAll(yielded["chat"])


\* C11: the count that chat reports as tokens_used is the number of fragments
\* stream_completion yielded for that call, also when the text returned is
\* the fallback sentence
C11_CountIsFragmentsYielded ==
    (pc["chat"] = "closed" /\ result.status = 200) =>
        /\ result.tokens_used = Len(yielded["chat"])
        /\ (AllWhitespace(ConcatAll(yielded["chat"])) =>
                result.response = Fallback /\ result.tokens_used = Len(yielded["chat"]))

\* a reply made of the fallback sentence whose count is not zero, and a
\* reply of two fragments
C11_Witness ==
    /\ pc["chat"] = "closed" /\ result.status = 200
    /\ result.response = Fallback
    /\ result.tokens_used = 2

\* C12: for every message and every history of N turns the list built is the
\* fixed system turn, then the last min(N, 6) turns of the history in their
\* order with role and content unchanged, then the message as a user turn;
\* it holds min(N, 6) + 2 turns and the history passed in is left as it was
C12_MessagesAreSystemTailUser ==
    [][LET N == Len(history)
           k == IF N < 6 THEN N ELSE 6
       IN  msgs' # msgs =>
             /\ Len(msgs') = k + 2
             /\ msgs'[1] = system_msg
             /\ \A i \in 1..k :
                  /\ msgs'[1 + i].role = history[N - k + i].role
                  /\ msgs'[1 + i].content = history[N - k + i].content
             /\ msgs'[k + 2] = [role |-> "user", content |-> message]
             /\ history' = history
             /\ message' = message]_vars

\* a list built from a history longer than the window, whose first turn
\* differs from the first turn kept
C12_Witness ==
    /\ Len(history) = 7
    /\ Len(msgs) = 8
    /\ history[1] # history[2]
    /\ msgs[2].content = history[2].content

\* a step in which task t returns from _get_client
Acquires(t) == task_pc[t] = "idle" /\ task_pc'[t] = "acquired"

\* C13: however the calls of _get_client interleave, a client is constructed
\* only when there is no shared client or the shared client is closed, and
\* then only one; while an open shared client exists every call returns that
\* client and constructs none; the client returned is the shared client and
\* is open when the call returns; as long as nothing was closed there is at
\* most one client
C13_AcquireSharesOneOpenClient ==
    [][\A t \in Tasks : Acquires(t) =>
         /\ Len(clients') > Len(clients) =>
                /\ client = 0 \/ clients[client].closed
                /\ Len(clients') = Len(clients) + 1
         /\ (client # 0 /\ ~clients[client].closed) =>
                /\ got'[t] = client
                /\ clients' = clients
         /\ client' = got'[t]
         /\ got'[t] \in DOMAIN clients'
         /\ ~clients'[got'[t]].closed
         /\ (\A c \in DOMAIN clients' : clients'[c].closes = 0) =>
                Len(clients') = 1]_vars

\* three calls of _get_client returned the one client constructed
C13_Witness ==
    /\ Len(clients) = 1
    /\ \E t1, t2, t3 \in Tasks :
         /\ t1 # t2 /\ t2 # t3 /\ t1 # t3
         /\ \A t \in {t1, t2, t3} : task_pc[t] = "acquired" /\ got[t] = 1

\* a step in which task t enters close_client, and one in which it returns
\* from it having closed nothing
BeginsClose(t) ==
    task_pc[t] = "idle" /\ task_pc'[t] \in {"closing", "released"}
ClosesNothing(t) == task_pc[t] = "idle" /\ task_pc'[t] = "released"

\* C14: close_client is idempotent: a call that finds an open shared client
\* closes that client, a call that finds no client or a closed one changes
\* nothing, and however many calls follow or overlap, no client's close is
\* performed a second time
C14_CloseIsIdempotent ==
    [][/\ \A c \in DOMAIN clients' : clients'[c].closes <= 1
       /\ \A t \in Tasks : BeginsClose(t) =>
            IF client # 0 /\ ~clients[client].closed
            THEN /\ clients'[client].closed
                 /\ clients'[client].closes = 1
                 /\ task_pc'[t] = "closing"
            ELSE /\ ClosesNothing(t)
                 /\ client' = client /\ clients' = clients]_vars

\* a second close_client returned, having closed nothing, while the first
\* is suspended in its await, and the client was closed once
C14_Witness ==
    \E t1, t2 \in Tasks :
        /\ task_pc[t1] = "closing" /\ got[t1] = 1
        /\ task_pc[t2] = "released" /\ got[t2] = 0
        /\ client = 1
        /\ clients[1].closed /\ clients[1].closes = 1

\* C18: however _get_client interleaves with close_client, every client
\* constructed is the shared client or is closed
C18_NoOpenClientUnreferenced ==
    \A c \in DOMAIN clients : c = client \/ clients[c].closed

FragmentFramesSent ==
    IF pc["stream"] = "closed" THEN Len(frames) - 1 ELSE Len(frames)

\* C16: chat_stream is driven by its caller: the fragments extracted from
\* the upstream exceed the fragment frames handed to the caller by at most
\* one, the one extra fragment is the frame awaiting the caller, and the
\* next line is read only when no frame awaits the caller
C16_AtMostOneFragmentAhead ==
    /\ Len(yielded["stream"]) >= FragmentFramesSent
    /\ Len(yielded["stream"]) <= FragmentFramesSent + 1
    /\ Len(yielded["stream"]) = FragmentFramesSent + 1 =>
           /\ pc["stream"] \in {"sending", "cancelled", "aborted"}
           /\ frame = frame_of(yielded["stream"][Len(yielded["stream"])])
    /\ pc["stream"] = "reading" => Len(yielded["stream"]) = FragmentFramesSent

\* the second fragment was extracted after the first frame was handed over
\* and awaits the caller
C16_Witness ==
    /\ pc["stream"] = "sending"
    /\ Len(yielded["stream"]) = 2
    /\ Len(frames) = 1

\* C17: every invocation of stream_completion issues exactly one POST, also
\* when it ended in a timeout, a failed status or a transport error, and the
\* lines an invocation reads come from the response to its own POST
C17_OnePostPerInvocation ==
    \A h \in Handlers :
        /\ posts[h] = (IF pc[h] = "idle" THEN 0 ELSE 1)
        /\ exc[h] # NoExc => posts[h] = 1
        /\ (pos[h] > 0 \/ resp[h] # "none") => posts[h] = 1

\* both requests ended, the second in a read timeout after a line was read,
\* and each issued one POST
C17_Witness ==
    /\ pc["stream"] = "closed" /\ pc["chat"] = "closed"
    /\ exc["chat"].cls = "ReadTimeout"
    /\ pos["chat"] > 0
    /\ posts["stream"] = 1 /\ posts["chat"] = 1

\* stream_completion has finished for request h
Finished(h) == pc[h] \in {"ended", "raised", "closed", "aborted"}

\* C19: whenever stream_completion has finished after its response was
\* opened (sentinel, end of body, failed status, failed read, error while a
\* line was processed, generator closed) the response is closed; a response
\* is open only while the invocation that opened it runs, and an invocation
\* opens no second one
C19_ResponseReleasedOnEveryExit ==
    \A h \in Handlers :
        /\ (Finished(h) /\ resp[h] # "none") => resp[h] = "closed"
        /\ resp[h] = "open" =>
               pc[h] \in {"opened", "reading", "sending", "cancelled"}
        /\ resp[h] # "none" => posts[h] = 1

\* the stream ended in an error raised while a line was processed, the
\* aggregated call in a read timeout; both responses are closed
C19_Witness ==
    /\ pc["stream"] = "closed" /\ exc["stream"].cls = "AttributeError"
    /\ resp["stream"] = "closed"
    /\ pc["chat"] = "closed" /\ exc["chat"].cls = "ReadTimeout"
    /\ resp["chat"] = "closed"

\* C20: a frame equal to the [DONE] marker is sent only as the last frame of
\* a stream that succeeded, a frame that begins like the [ERROR] marker only
\* as the last frame of a stream that failed, and no frame of a fragment is
\* or begins like either marker
C20_MarkersAreUnambiguous ==
    \A i \in DOMAIN frames :
        /\ IsDoneFrame(frames[i]) =>
               /\ i > Len(yielded["stream"])
               /\ i = Len(frames)
               /\ pc["stream"] = "closed" /\ exc["stream"] = NoExc
        /\ IsErrorFrame(frames[i]) =>
               /\ i > Len(yielded["stream"])
               /\ i = Len(frames)
               /\ pc["stream"] = "closed" /\ exc["stream"] # NoExc

=========================================================================
